---- MODULE Spec2Model ----
(***************************************************************************)
(* A model of the schema-less protobuf decoder of src/src/decode.rs:       *)
(* Decoder (data, idx), next_byte, next_varint, read, remaining, decode,   *)
(* WireType::from_u8.                                                      *)
(*                                                                         *)
(* Integers wider than TLC's own are kept as the set of the positions of   *)
(* their 1 bits: an i128 is a subset of 0..127, `|` is set union, `as u32` *)
(* keeps the positions below 32, `as usize` those below 64.                *)
(*                                                                         *)
(* Arithmetic overflow is not the same in every build of the crate: with   *)
(* overflow checks (the debug profile) it panics, without them (the        *)
(* release profile) it wraps.  The variable oc holds the build's choice.   *)
(***************************************************************************)
EXTENDS Integers, Sequences, FiniteSets

VARIABLES
    input,   \* the byte buffer handed to Decoder::new
    oc,      \* TRUE when the build checks arithmetic overflow
    stack,   \* the decoders in use: stack[1] is the caller's, the last one runs
    status,  \* "running" | "ok" | "err" | "panic"; "new" | "called" for a lone call
    ret,     \* what the call returned
    tags,    \* history: the tag values read by the outermost field loop
    round,   \* 1: input is decoded; 2: input is decoded as one field's payload
    ref,     \* what the harness remembers of the round before
    simple   \* what simplify made of the result decode returned

vars == <<input, oc, stack, status, ret, tags, round, ref, simple>>

----------------------------------------------------------------------------
(* Bounds of the model. *)

\* An input starts with at most this many well-formed fields.
MaxHead == 2
\* The longest run of bytes that all carry the continuation bit.
MaxCont == 20
\* The lone next_varint calls decode every value below this one.
MaxSmall == 40

(* Widths fixed by the program's types; usize is that of a 64-bit target. *)
I128Bits == 128
U32Bits == 32
UsizeBits == 64

----------------------------------------------------------------------------
(* Bit sets. *)

\* The bits of a small natural number n, below position w.
BitsOf(n, w) == {k \in 0..(w - 1) : (n \div (2 ^ k)) % 2 = 1}

NatToBits(n) == BitsOf(n, 30)

RECURSIVE ToNat(_)
\* The number a set of positions below 30 stands for.
ToNat(bits) ==
    IF bits = {} THEN 0
    ELSE LET k == CHOOSE x \in bits : TRUE
         IN  (2 ^ k) + ToNat(bits \ {k})

Rep(b, n) == [i \in 1..n |-> b]

----------------------------------------------------------------------------
(* Errors and values. *)

NoErr == [type |-> "none"]
InvalidMemoryAccess == [type |-> "InvalidMemoryAccess"]
UnsupportedWireType(code) == [type |-> "UnsupportedWireType", code |-> code]

BigInt(v) == [kind |-> "BigInt", int |-> v]
Buffer(bytes) == [kind |-> "Buffer", buf |-> bytes]
Nested(result) == [kind |-> "Nested", nested |-> result]

Decoded(field, wire_type, is_object, value) ==
    [field |-> field, wire_type |-> wire_type, is_object |-> is_object,
     value |-> value]

DecodingResult(fields, unprocessed) ==
    [fields |-> fields, unprocessed |-> unprocessed]

----------------------------------------------------------------------------
(* WireType::from_u8 *)

\* The mutant of from_u8 that takes code 6 for a wire type of its own and
\* reads its value as a varint.
from_u8_accepts_six(value) ==
    CASE value = 0 -> [ok |-> TRUE, wire_type |-> "VarInt", err |-> NoErr]
      [] value = 1 -> [ok |-> TRUE, wire_type |-> "I64", err |-> NoErr]
      [] value = 2 -> [ok |-> TRUE, wire_type |-> "Len", err |-> NoErr]
      [] value = 5 -> [ok |-> TRUE, wire_type |-> "I32", err |-> NoErr]
      [] value = 6 -> [ok |-> TRUE, wire_type |-> "VarInt", err |-> NoErr]
      [] OTHER -> [ok |-> FALSE, wire_type |-> "none",
                   err |-> UnsupportedWireType(value)]

from_u8(value) ==
    CASE value = 0 -> [ok |-> TRUE, wire_type |-> "VarInt", err |-> NoErr]
      [] value = 1 -> [ok |-> TRUE, wire_type |-> "I64", err |-> NoErr]
      [] value = 2 -> [ok |-> TRUE, wire_type |-> "Len", err |-> NoErr]
      [] value = 5 -> [ok |-> TRUE, wire_type |-> "I32", err |-> NoErr]
      [] OTHER -> [ok |-> FALSE, wire_type |-> "none",
                   err |-> UnsupportedWireType(value)]

----------------------------------------------------------------------------
(* Decoder::new, next_byte, next_varint, read, remaining *)

NewDecoder(data) ==
    [data |-> data, idx |-> 0, fields |-> <<>>,
     pend |-> [field |-> {}, sub_data |-> <<>>]]

next_byte(data, idx) ==
    IF idx < Len(data)
    THEN [ok |-> TRUE, byte |-> data[idx + 1], idx |-> idx + 1]
    ELSE [ok |-> FALSE, byte |-> 0, idx |-> idx]

\* current << shift, for a shift below the width: the bits pushed past the
\* top are lost.
Shl(current, shift) ==
    {k + shift : k \in BitsOf(current, 7)} \cap (0..(I128Bits - 1))

\* The mutant of NextShift that takes a group for eight bits.
NextShiftEight(shift) == shift + 8

\* shift += 7
NextShift(shift) == shift + 7

RECURSIVE varint_loop(_, _, _, _, _)
\* The loop of next_varint.  With overflow checks a shift by the width or
\* more panics; without them the shift amount is taken modulo the width.
varint_loop(data, idx, value, shift, checks) ==
    LET b == next_byte(data, idx)
    IN  IF ~b.ok
        THEN [out |-> "err", err |-> InvalidMemoryAccess, value |-> {},
              idx |-> b.idx]
        ELSE IF checks /\ shift >= I128Bits
        THEN [out |-> "panic", err |-> NoErr, value |-> {}, idx |-> b.idx]
        ELSE LET current == b.byte % 128
                 v2 == value \cup Shl(current, shift % I128Bits)
             IN  IF b.byte < 128
                 THEN [out |-> "ok", err |-> NoErr, value |-> v2,
                       idx |-> b.idx]
                 ELSE varint_loop(data, b.idx, v2, NextShift(shift), checks)

next_varint(data, idx, checks) == varint_loop(data, idx, {}, 0, checks)

\* idx + length overflows a usize.
AddOverflows(idx, length) ==
    /\ (30..(UsizeBits - 1)) \subseteq length
    /\ ToNat(length \cap (0..29)) + idx >= 2 ^ 30

\* The end of the range idx..idx + length, as far as it can lie inside the
\* buffer: a sum past every buffer this model holds is the buffer's length
\* plus one.
RangeEnd(data, idx, length) ==
    IF length \subseteq (0..29) /\ idx + ToNat(length) <= Len(data)
    THEN idx + ToNat(length)
    ELSE IF AddOverflows(idx, length)
    THEN ToNat(length \cap (0..29)) + idx - 2 ^ 30
    ELSE Len(data) + 1

read(data, idx, length, checks) ==
    IF checks /\ AddOverflows(idx, length)
    THEN [out |-> "panic", err |-> NoErr, bytes |-> <<>>, idx |-> idx]
    ELSE LET end == RangeEnd(data, idx, length)
         IN  IF idx <= end /\ end <= Len(data)
             THEN [out |-> "ok", err |-> NoErr,
                   bytes |-> SubSeq(data, idx + 1, end), idx |-> end]
             ELSE [out |-> "err", err |-> InvalidMemoryAccess,
                   bytes |-> <<>>, idx |-> idx]

remaining(d) == Len(d.data) - d.idx

----------------------------------------------------------------------------
(* Decoder::decode: one pass of the field loop, and the loop's exit. *)

\* next_varint()? as u32
AsU32(v) == v \cap (0..(U32Bits - 1))

\* next_varint()? as usize
AsUsize(v) == v \cap (0..(UsizeBits - 1))

\* enc >> 3
TagField(enc) == {k - 3 : k \in enc \ (0..2)}

\* (enc & 7) as u8
TagCode(enc) == ToNat(enc \cap (0..2))

\* What a pass of the loop, or the loop's exit, comes to.
\*   "field": a field whose value is read in place;
\*   "len":   a length-delimited field, whose payload a nested decoder gets;
\*   "done":  the loop is over and the result is built;
\*   "err":   a `?` returned an error;   "panic": the thread panicked.
Out(kind, idx) ==
    [kind |-> kind, idx |-> idx, tag_read |-> FALSE, tag |-> {},
     field |-> {}, wire_type |-> "none", value |-> BigInt({}),
     sub_data |-> <<>>, err |-> NoErr, unprocessed |-> <<>>]

Failed(r) ==
    IF r.out = "panic" THEN Out("panic", r.idx)
    ELSE [Out("err", r.idx) EXCEPT !.err = r.err]

\* The value of a field of wire type VarInt.
VarIntValue(d, at, checks) ==
    LET v == next_varint(d.data, at, checks)
    IN  IF v.out # "ok" THEN Failed(v)
        ELSE [Out("field", v.idx) EXCEPT !.value = BigInt(v.value)]

\* The value of a field of wire type I32 or I64: n bytes.
FixedValue(d, at, n, checks) ==
    LET r == read(d.data, at, NatToBits(n), checks)
    IN  IF r.out # "ok" THEN Failed(r)
        ELSE [Out("field", r.idx) EXCEPT !.value = Buffer(r.bytes)]

\* The mutant of LenPayload that hands the nested decoder the whole buffer
\* of its caller.
LenPayloadWholeBuffer(d, at, checks) ==
    LET l == next_varint(d.data, at, checks)
    IN  IF l.out # "ok" THEN Failed(l)
        ELSE LET sub == read(d.data, l.idx, AsUsize(l.value), checks)
             IN  IF sub.out # "ok" THEN Failed(sub)
                 ELSE [Out("len", sub.idx) EXCEPT !.sub_data = d.data]

\* The length and the payload of a field of wire type Len.
LenPayload(d, at, checks) ==
    LET l == next_varint(d.data, at, checks)
    IN  IF l.out # "ok" THEN Failed(l)
        ELSE LET sub == read(d.data, l.idx, AsUsize(l.value), checks)
             IN  IF sub.out # "ok" THEN Failed(sub)
                 ELSE [Out("len", sub.idx) EXCEPT !.sub_data = sub.bytes]

\* The mutant of DispatchValue that reads eight bytes for an I32.
DispatchValueWideI32(d, at, wire_type, code, checks) ==
    CASE wire_type = "VarInt" -> VarIntValue(d, at, checks)
      [] wire_type = "Len" -> LenPayload(d, at, checks)
      [] wire_type = "I32" -> FixedValue(d, at, 8, checks)
      [] wire_type = "I64" -> FixedValue(d, at, 8, checks)
      [] OTHER -> [Out("err", at) EXCEPT !.err = UnsupportedWireType(code)]

\* The value read for a tag of the given wire type.
DispatchValue(d, at, wire_type, code, checks) ==
    CASE wire_type = "VarInt" -> VarIntValue(d, at, checks)
      [] wire_type = "Len" -> LenPayload(d, at, checks)
      [] wire_type = "I32" -> FixedValue(d, at, 4, checks)
      [] wire_type = "I64" -> FixedValue(d, at, 8, checks)
      [] OTHER -> [Out("err", at) EXCEPT !.err = UnsupportedWireType(code)]

\* One pass of the loop of decode, from the tag to the value.
Iteration(d, checks) ==
    LET t == next_varint(d.data, d.idx, checks)
    IN  IF t.out # "ok" THEN Failed(t)
        ELSE LET enc == AsU32(t.value)
                 field == TagField(enc)
                 code == TagCode(enc)
                 wt == from_u8(code)
                 o == IF ~wt.ok
                      THEN [Out("err", t.idx) EXCEPT !.err = wt.err]
                      ELSE DispatchValue(d, t.idx, wt.wire_type, code, checks)
             IN  [o EXCEPT !.tag_read = TRUE, !.tag = t.value,
                           !.field = field, !.wire_type = wt.wire_type]

\* The loop's exit: unprocessed: self.read(self.remaining())?
LoopExit(d, checks) ==
    LET r == read(d.data, d.idx, NatToBits(remaining(d)), checks)
    IN  IF r.out # "ok" THEN Failed(r)
        ELSE [Out("done", r.idx) EXCEPT !.unprocessed = r.bytes]

\* The mutant of Step whose loop runs while more than one byte remains.
StepLeavesLastByte(d, checks) ==
    IF remaining(d) > 1 THEN Iteration(d, checks) ELSE LoopExit(d, checks)

\* The next thing decode does on decoder d.
Step(d, checks) ==
    IF remaining(d) > 0 THEN Iteration(d, checks) ELSE LoopExit(d, checks)

\* Two mutants of LenValue: one never takes the payload for a message, the
\* other keeps what a failed nested decode had read.
LenValueAlwaysBuffer(sub_data, o) ==
    Decoded(o.field, "Len", FALSE, Buffer(sub_data))

LenValueKeepsPartial(sub_data, o) ==
    IF o.kind = "done"
    THEN Decoded(o.field, "Len", TRUE,
                 Nested(DecodingResult(o.fields, o.unprocessed)))
    ELSE Decoded(o.field, "Len", TRUE,
                 Nested(DecodingResult(o.fields, <<>>)))

\* What the caller of a nested decode makes of its return: the match at the
\* end of the Len arm.
LenValue(sub_data, o) ==
    IF o.kind = "done"
    THEN Decoded(o.field, "Len", TRUE,
                 Nested(DecodingResult(o.fields, o.unprocessed)))
    ELSE Decoded(o.field, "Len", FALSE, Buffer(sub_data))

----------------------------------------------------------------------------
(* simplify, wire_type_to_str, unwrap_nested, and the Debug rendering that   *)
(* format!("{:?}", field.value) gives.  A String is the sequence of its      *)
(* pieces: the literal parts, and one piece for every decimal digit.         *)

SimpleDecoded(field, wire_type, is_object, value) ==
    [field |-> field, wire_type |-> wire_type, is_object |-> is_object,
     value |-> value]

SimpleString(str) == [kind |-> "String", str |-> str]
SimpleNested(result) == [kind |-> "Nested", nested |-> result]
SimpleDecodingResult(fields) == [fields |-> fields]

DigitChar == <<"0", "1", "2", "3", "4", "5", "6", "7", "8", "9">>

RECURSIVE MulAdd(_, _, _)
\* m * ds + c, for decimal digits ds, the least significant first.
MulAdd(ds, m, c) ==
    IF ds = <<>>
    THEN IF c = 0 THEN <<>> ELSE <<c % 10>> \o MulAdd(<<>>, m, c \div 10)
    ELSE LET x == m * Head(ds) + c
         IN  <<x % 10>> \o MulAdd(Tail(ds), m, x \div 10)

AddOne(ds) == IF ds = <<>> THEN <<1>> ELSE MulAdd(ds, 1, 1)

\* The number the sixteen bits of v from position 16 * j on stand for.
Chunk(v, j) == ToNat({b - 16 * j : b \in v \cap ((16 * j)..(16 * j + 15))})

RECURSIVE DigitsDown(_, _, _)
\* The decimal digits, least significant first, of acc * 2^(16 * (j + 1))
\* plus the bits of v below position 16 * (j + 1).
DigitsDown(v, j, acc) ==
    IF j < 0 THEN acc
    ELSE DigitsDown(v, j - 1, MulAdd(acc, 2 ^ 16, Chunk(v, j)))

\* The decimal digits of the number v stands for.
Digits(v) == DigitsDown(v, (I128Bits \div 16) - 1, <<>>)

\* The pieces of digits given the least significant first.
Numeral(ds) ==
    IF ds = <<>> THEN <<"0">>
    ELSE [i \in 1..Len(ds) |-> DigitChar[ds[Len(ds) + 1 - i] + 1]]

\* An unsigned number, and an i128, in decimal.
DebugUnsigned(v) == Numeral(Digits(v))

DebugI128(v) ==
    IF (I128Bits - 1) \in v
    THEN <<"-">> \o Numeral(AddOne(Digits((0..(I128Bits - 1)) \ v)))
    ELSE DebugUnsigned(v)

RECURSIVE DebugBytes(_, _)
\* The elements of a Vec<u8> from the i-th on, with ", " between them.
DebugBytes(bytes, i) ==
    IF i > Len(bytes) THEN <<>>
    ELSE DebugUnsigned(NatToBits(bytes[i]))
             \o (IF i < Len(bytes) THEN <<", ">> ELSE <<>>)
             \o DebugBytes(bytes, i + 1)

DebugVec(bytes) == <<"[">> \o DebugBytes(bytes, 1) \o <<"]">>

DebugBool(b) == IF b THEN <<"true">> ELSE <<"false">>

RECURSIVE DebugValue(_)
RECURSIVE DebugFields(_, _)

\* #[derive(Debug)] of DecodingResult.
DebugResult(result) ==
    <<"DecodingResult { fields: [">> \o DebugFields(result.fields, 1)
        \o <<"], unprocessed: ">> \o DebugVec(result.unprocessed) \o <<" }">>

\* #[derive(Debug)] of Decoded.
DebugDecoded(f) ==
    <<"Decoded { field: ">> \o DebugUnsigned(f.field)
        \o <<", wire_type: ", f.wire_type, ", is_object: ">>
        \o DebugBool(f.is_object)
        \o <<", value: ">> \o DebugValue(f.value) \o <<" }">>

DebugFields(fields, i) ==
    IF i > Len(fields) THEN <<>>
    ELSE DebugDecoded(fields[i])
             \o (IF i < Len(fields) THEN <<", ">> ELSE <<>>)
             \o DebugFields(fields, i + 1)

\* #[derive(Debug)] of DecodedValue.
DebugValue(value) ==
    CASE value.kind = "BigInt" ->
            <<"BigInt(">> \o DebugI128(value.int) \o <<")">>
      [] value.kind = "Buffer" ->
            <<"Buffer(">> \o DebugVec(value.buf) \o <<")">>
      [] OTHER ->
            <<"Nested(">> \o DebugResult(value.nested) \o <<")">>

\* The mutant of wire_type_to_str that has no arm for I32.
wire_type_to_str_no_i32(wire_type) ==
    CASE wire_type = "VarInt" -> "varint"
      [] wire_type = "I64" -> "i64"
      [] wire_type = "Len" -> "len"
      [] OTHER -> "unknown"

wire_type_to_str(wire_type) ==
    CASE wire_type = "VarInt" -> "varint"
      [] wire_type = "I64" -> "i64"
      [] wire_type = "Len" -> "len"
      [] wire_type = "I32" -> "i32"
      [] OTHER -> "unknown"

\* DecodedValue::unwrap_nested: the result, or a panic.
unwrap_nested(value) ==
    IF value.kind = "Nested"
    THEN [panic |-> FALSE, result |-> value.nested]
    ELSE [panic |-> TRUE, result |-> DecodingResult(<<>>, <<>>)]

RECURSIVE simplify(_)
RECURSIVE SimplifyFields(_, _)

\* The closure of simplify, on one field: the simplified field, or a panic.
SimplifyField(f) ==
    LET wire_type == wire_type_to_str(f.wire_type)
        value ==
            IF f.is_object
            THEN LET u == unwrap_nested(f.value)
                 IN  IF u.panic THEN [panic |-> TRUE, v |-> SimpleString(<<>>)]
                     ELSE LET n == simplify(u.result)
                          IN  [panic |-> n.panic, v |-> SimpleNested(n.result)]
            ELSE [panic |-> FALSE, v |-> SimpleString(DebugValue(f.value))]
    IN  [panic |-> value.panic,
         field |-> SimpleDecoded(f.field, wire_type, f.is_object, value.v)]

\* result.fields.into_iter().map(..).collect(), from the i-th field on.
SimplifyFields(fields, i) ==
    IF i > Len(fields) THEN [panic |-> FALSE, fields |-> <<>>]
    ELSE LET h == SimplifyField(fields[i])
         IN  IF h.panic THEN [panic |-> TRUE, fields |-> <<>>]
             ELSE LET t == SimplifyFields(fields, i + 1)
                  IN  [panic |-> t.panic, fields |-> <<h.field>> \o t.fields]

simplify(result) ==
    LET m == SimplifyFields(result.fields, 1)
    IN  [panic |-> m.panic, result |-> SimpleDecodingResult(m.fields)]

----------------------------------------------------------------------------
(* The varint encoding, and the inputs. *)

RECURSIVE EncodeGroups(_, _)
\* The base-128 groups of v from group k on, least significant first, every
\* byte but the last with the continuation bit.
EncodeGroups(v, k) ==
    LET g == ToNat({b - 7 * k : b \in v \cap ((7 * k)..(7 * k + 6))})
        rest == {b \in v : b >= 7 * (k + 1)}
    IN  IF rest = {} THEN <<g>>
        ELSE <<g + 128>> \o EncodeGroups(v, k + 1)

EncodeVarint(v) == EncodeGroups(v, 0)

\* A buffer that holds one length-delimited field, number f, payload p.
Wrap(f, p) == <<8 * f + 2>> \o EncodeVarint(NatToBits(Len(p))) \o p

\* The field numbers the harness wraps a payload with.
WrapFields == {1, 2}

Testing == <<116, 101, 115, 116, 105, 110, 103>>

WellFormedAtoms ==
    { <<8, 150, 1>>,                      \* field 1, VarInt 150
      <<8, 5>>,                           \* field 1, VarInt 5
      <<13, 1, 2, 3, 4>>,                 \* field 1, I32
      <<9, 1, 2, 3, 4, 5, 6, 7, 8>>,      \* field 1, I64
      <<13, 1, 2, 3, 4, 9, 1, 2, 3, 4, 5, 6, 7, 8>>,   \* I32, then I64
      <<18, 7>> \o Testing,               \* field 2, Len "testing"
      <<10, 0>> }                         \* field 1, Len, empty payload

MalformedAtoms ==
    { <<11>>, <<12>>, <<14>>, <<15>>,     \* field 1, wire-type codes 3 4 6 7
      <<128>>,                            \* a tag cut short
      <<13, 1, 2>>,                       \* an I32 cut short
      <<9, 1, 2, 3>>,                     \* an I64 cut short
      <<10, 5, 8>>,                       \* Len 5 with one byte left
      <<136, 128, 128, 128, 16, 0>>,      \* tag 2^32 + 8, VarInt 0
      <<10>> \o Rep(128, 9) \o <<2>>,     \* Len with length 2^64
      <<10>> \o Rep(255, 9) \o <<1>> }    \* Len with length 2^64 - 1

ContRuns == {Rep(128, k) : k \in (MaxCont - 1)..MaxCont}

Atoms == WellFormedAtoms \cup MalformedAtoms \cup ContRuns

Items == Atoms \cup {Wrap(1, a) : a \in Atoms}

\* The fields an input starts with, before its last item.
HeadFields == { <<8, 150, 1>>, <<16, 5>>, <<18, 7>> \o Testing }

RECURSIVE Heads(_)
Heads(n) ==
    IF n = 0 THEN {<<>>}
    ELSE LET s == Heads(n - 1)
         IN  s \cup {x \o h : x \in s, h \in HeadFields}

Inputs == {h \o i : h \in Heads(MaxHead), i \in Items \cup {<<>>}}

----------------------------------------------------------------------------
(* The state machine: decode, run on the input, then on the input wrapped   *)
(* as the payload of one length-delimited field.                            *)

None == [kind |-> "None"]
Ok(result) == [kind |-> "Ok", result |-> result]
Err(e) == [kind |-> "Err", err |-> e]
Panicked == [kind |-> "Panic"]

NoRef == [status |-> "none", ret |-> None, field |-> 0, start |-> 0,
          value |-> {}]

Depth == Len(stack)
Top == stack[Depth]

Init ==
    /\ input \in Inputs
    /\ oc \in BOOLEAN
    /\ stack = <<NewDecoder(input)>>
    /\ status = "running"
    /\ ret = None
    /\ tags = <<>>
    /\ round = 1
    /\ ref = NoRef
    /\ simple = None

LogTag(o) == IF Depth = 1 /\ o.tag_read THEN Append(tags, o.tag) ELSE tags

\* fields.push(Decoded { .. }) for a VarInt, I32 or I64 field.
DecodeScalarField ==
    /\ status = "running"
    /\ LET o == Step(Top, oc)
       IN  /\ o.kind = "field"
           /\ stack' = [stack EXCEPT ![Depth] =
                  [@ EXCEPT !.idx = o.idx,
                            !.fields = Append(@, Decoded(o.field,
                                o.wire_type, FALSE, o.value))]]
           /\ tags' = LogTag(o)
    /\ UNCHANGED simple
    /\ UNCHANGED <<input, oc, status, ret, round, ref>>

\* Decoder::new(sub_data.clone()) and the call of its decode.
DecodeLenField ==
    /\ status = "running"
    /\ LET o == Step(Top, oc)
       IN  /\ o.kind = "len"
           /\ stack' = Append(
                  [stack EXCEPT ![Depth] =
                      [@ EXCEPT !.idx = o.idx,
                                !.pend = [field |-> o.field,
                                          sub_data |-> o.sub_data]]],
                  NewDecoder(o.sub_data))
           /\ tags' = LogTag(o)
    /\ UNCHANGED simple
    /\ UNCHANGED <<input, oc, status, ret, round, ref>>

\* The stack once the nested decode has returned: its decoder is dropped
\* and its caller has pushed the field.
Returned(kind, o) ==
    LET parent == stack[Depth - 1]
        r == [kind |-> kind, field |-> parent.pend.field,
              fields |-> Top.fields, unprocessed |-> o.unprocessed]
    IN  Append(SubSeq(stack, 1, Depth - 2),
               [parent EXCEPT !.fields = Append(@,
                   LenValue(parent.pend.sub_data, r))])

\* The nested decode returns Ok(decoded).
NestedOk ==
    /\ status = "running"
    /\ Depth > 1
    /\ LET o == Step(Top, oc)
       IN  /\ o.kind = "done"
           /\ stack' = Returned("done", o)
    /\ UNCHANGED simple
    /\ UNCHANGED <<input, oc, status, ret, tags, round, ref>>

\* The nested decode returns Err(_).
NestedErr ==
    /\ status = "running"
    /\ Depth > 1
    /\ LET o == Step(Top, oc)
       IN  /\ o.kind = "err"
           /\ stack' = Returned("err", o)
    /\ UNCHANGED simple
    /\ UNCHANGED <<input, oc, status, ret, tags, round, ref>>

\* The caller's decode returns Ok.
TopOk ==
    /\ status = "running"
    /\ Depth = 1
    /\ LET o == Step(Top, oc)
       IN  /\ o.kind = "done"
           /\ ret' = Ok(DecodingResult(Top.fields, o.unprocessed))
           /\ stack' = <<[Top EXCEPT !.idx = o.idx, !.fields = <<>>]>>
    /\ status' = "ok"
    /\ UNCHANGED simple
    /\ UNCHANGED <<input, oc, tags, round, ref>>

\* The mutant of TopErr that returns the fields decoded before the error.
TopErrBestEffort ==
    /\ status = "running"
    /\ Depth = 1
    /\ LET o == Step(Top, oc)
       IN  /\ o.kind = "err"
           /\ ret' = Ok(DecodingResult(Top.fields, <<>>))
           /\ stack' = <<[Top EXCEPT !.idx = o.idx, !.fields = <<>>]>>
           /\ tags' = LogTag(o)
    /\ status' = "ok"
    /\ UNCHANGED simple
    /\ UNCHANGED <<input, oc, round, ref>>

\* A `?` of the caller's decode returns the error.
TopErr ==
    /\ status = "running"
    /\ Depth = 1
    /\ LET o == Step(Top, oc)
       IN  /\ o.kind = "err"
           /\ ret' = Err(o.err)
           /\ stack' = <<[Top EXCEPT !.idx = o.idx, !.fields = <<>>]>>
           /\ tags' = LogTag(o)
    /\ status' = "err"
    /\ UNCHANGED simple
    /\ UNCHANGED <<input, oc, round, ref>>

\* An overflow panics, at any depth: no decode returns.
Panic ==
    /\ status = "running"
    /\ LET o == Step(Top, oc)
       IN  /\ o.kind = "panic"
           /\ tags' = LogTag(o)
    /\ status' = "panic"
    /\ ret' = Panicked
    /\ UNCHANGED simple
    /\ UNCHANGED <<input, oc, stack, round, ref>>

\* The harness: the input, decoded or refused, becomes the payload of the
\* one field of an outer buffer, which a new decoder decodes.
Rewrap ==
    /\ round = 1
    /\ status \in {"ok", "err"}
    /\ \E f \in WrapFields :
        /\ ref' = [NoRef EXCEPT !.status = status, !.ret = ret, !.field = f]
        /\ stack' = <<NewDecoder(Wrap(f, input))>>
    /\ round' = 2
    /\ status' = "running"
    /\ ret' = None
    /\ tags' = <<>>
    /\ simple' = None
    /\ UNCHANGED <<input, oc>>

\* let simplified = simplify(decoded_message), after a decode that
\* returned Ok.
Simplify ==
    /\ status = "ok"
    /\ simple = None
    /\ LET m == simplify(ret.result)
       IN  /\ simple' = IF m.panic THEN Panicked ELSE Ok(m.result)
           /\ status' = IF m.panic THEN "panic" ELSE status
    /\ UNCHANGED <<input, oc, stack, ret, tags, round, ref>>

Next ==
    \/ DecodeScalarField
    \/ DecodeLenField
    \/ NestedOk
    \/ NestedErr
    \/ TopOk
    \/ TopErr
    \/ Panic
    \/ Rewrap
    \/ Simplify

Spec == Init /\ [][Next]_vars

----------------------------------------------------------------------------
(* next_varint alone: one call on a decoder whose cursor stands at the      *)
(* start of a varint, or of a run of continuation bytes.                    *)

\* The values whose encodings are decoded: the small ones, 127, 128, 300,
\* every power of two and every 2^k - 1 below 2^127.
VarintValues ==
    {NatToBits(n) : n \in 0..MaxSmall}
        \cup {NatToBits(127), NatToBits(128), NatToBits(300)}
        \cup {{k} : k \in 0..(I128Bits - 2)}
        \cup {0..k : k \in 0..(I128Bits - 2)}

\* The bytes before the cursor, and those after the varint.
Prefixes == {<<>>, <<8, 1>>}
Suffixes == {<<>>, <<128, 1>>}

\* Runs of bytes that all carry the continuation bit.
AllContinuation ==
    {Rep(b, k) : b \in {128, 255}, k \in 0..MaxCont}

VarintCase(pre, data, kind, v) ==
    /\ input = pre \o data
    /\ stack = <<[NewDecoder(input) EXCEPT !.idx = Len(pre)]>>
    /\ ref = [NoRef EXCEPT !.status = kind, !.start = Len(pre), !.value = v]

VarintInit ==
    /\ oc \in BOOLEAN
    /\ status = "new"
    /\ ret = None
    /\ tags = <<>>
    /\ round = 0
    /\ simple = None
    /\ \E pre \in Prefixes :
        \/ \E v \in VarintValues, suf \in Suffixes :
               VarintCase(pre, EncodeVarint(v) \o suf, "encoded", v)
        \/ \E run \in AllContinuation :
               VarintCase(pre, run, "continuation", {})

\* let r = decoder.next_varint();
CallNextVarint ==
    /\ status = "new"
    /\ LET r == next_varint(Top.data, Top.idx, oc)
       IN  /\ stack' = <<[Top EXCEPT !.idx = r.idx]>>
           /\ ret' = CASE r.out = "ok" -> [kind |-> "Ok", value |-> r.value]
                       [] r.out = "err" -> Err(r.err)
                       [] OTHER -> Panicked
    /\ status' = "called"
    /\ UNCHANGED simple
    /\ UNCHANGED <<input, oc, tags, round, ref>>

VarintNext == CallNextVarint

SpecVarint == VarintInit /\ [][VarintNext]_vars

----------------------------------------------------------------------------
(* The claims. *)

\* The only field of the outer buffer of round 2.
OuterField(is_object, value) ==
    Decoded(NatToBits(ref.field), "Len", is_object, value)

\* C1: when decode succeeds on a buffer P alone, the decode of an outer
\* buffer holding one length-delimited field with payload P returns that
\* field with is_object = true and value Nested(R), R being the result of
\* the decode of P alone.
C1_NestedEqualsIndependentDecode ==
    (round = 2 /\ ref.status = "ok" /\ status # "running") =>
        /\ status = "ok"
        /\ ret.result.fields = <<OuterField(TRUE, Nested(ref.ret.result))>>

\* P holds several fields, one of them a nested message, and round 2 is over.
C1_Witness ==
    /\ round = 2
    /\ status = "ok"
    /\ ref.status = "ok"
    /\ Len(ref.ret.result.fields) >= 2
    /\ \E i \in 1..Len(ref.ret.result.fields) :
           ref.ret.result.fields[i].is_object

\* C2: when the decode of a payload alone returns an error, the decode of an
\* outer buffer holding one length-delimited field with that payload
\* succeeds, and its result is that one field with is_object = false and
\* value Buffer(payload), the payload's bytes unchanged; nothing the failed
\* attempt had decoded is in the result.
C2_FailedNestedFallsBackToBuffer ==
    (round = 2 /\ ref.status = "err" /\ status # "running") =>
        /\ status = "ok"
        /\ ret.result = DecodingResult(<<OuterField(FALSE, Buffer(input))>>,
                                       <<>>)

\* The payload starts with a well-formed field and then fails: the failed
\* attempt had decoded a field.
C2_Witness ==
    /\ round = 2
    /\ status = "ok"
    /\ ref.status = "err"
    /\ Len(input) > 3
    /\ SubSeq(input, 1, 3) = <<8, 150, 1>>

\* C3: an error of the outermost decode's own field loop is returned as Err
\* with no DecodingResult, whatever was decoded before; an error of a nested
\* decode is not returned: the caller's decode goes on, with one more field.
C3_TopLevelErrorsPropagate ==
    [][(status = "running" /\ Step(Top, oc).kind = "err") =>
        IF Depth = 1
        THEN /\ status' = "err"
             /\ ret' = Err(Step(Top, oc).err)
        ELSE /\ status' = "running"
             /\ Len(stack') = Depth - 1
             /\ Len(stack'[Depth - 1].fields)
                    = Len(stack[Depth - 1].fields) + 1]_vars

\* The outermost decode failed after its loop had decoded two fields.
C3_Witness ==
    /\ round = 1
    /\ status = "err"
    /\ Len(tags) = 3

\* The wire-type code of a tag value.
CodeOf(tag) == ToNat(tag \cap (0..2))

\* C4: when the outermost field loop reads a tag whose wire-type code is 3,
\* 4, 6 or 7, decode returns UnsupportedWireType with that code, the cursor
\* stays right behind the tag and no result is returned; a tag with code 0,
\* 1, 2 or 5 never gives UnsupportedWireType.
C4_UnsupportedWireTypes ==
    [][(status = "running" /\ Depth = 1 /\ remaining(Top) > 0
            /\ next_varint(Top.data, Top.idx, oc).out = "ok") =>
        LET t == next_varint(Top.data, Top.idx, oc)
            code == CodeOf(t.value)
        IN  IF code \in {3, 4, 6, 7}
            THEN /\ status' = "err"
                 /\ ret' = Err(UnsupportedWireType(code))
                 /\ stack'[1].idx = t.idx
            ELSE ~(status' = "err" /\ ret'.err.type = "UnsupportedWireType")
       ]_vars

\* Decode failed on a tag of code 6, after a field.
C4_Witness ==
    /\ status = "err"
    /\ ret = Err(UnsupportedWireType(6))
    /\ Len(tags) >= 2

\* A declared length, the whole varint value, is more than n bytes.
Exceeds(v, n) ==
    /\ (I128Bits - 1) \notin v
    /\ \/ ~(v \subseteq (0..29))
       \/ ToNat(v \cap (0..29)) > n

\* C5: a length-delimited field whose declared length, the whole value of
\* the length varint, is more than the bytes left behind that varint makes
\* the decode of its level fail with InvalidMemoryAccess, the cursor staying
\* right behind the length; when that level is a nested decode, its caller
\* records the payload it was given as Buffer with is_object = false and
\* goes on.  The code does not do this for every such length.
C5_OversizedLengthFails ==
    [][(status = "running" /\ remaining(Top) > 0) =>
        LET t == next_varint(Top.data, Top.idx, oc)
            l == next_varint(Top.data, t.idx, oc)
        IN  (/\ t.out = "ok"
             /\ CodeOf(t.value) = 2
             /\ l.out = "ok"
             /\ Exceeds(l.value, Len(Top.data) - l.idx)) =>
                IF Depth = 1
                THEN /\ status' = "err"
                     /\ ret' = Err(InvalidMemoryAccess)
                     /\ stack'[1].idx = l.idx
                ELSE /\ status' = "running"
                     /\ Len(stack') = Depth - 1
                     /\ LET parent == stack[Depth - 1]
                            after == stack'[Depth - 1]
                        IN  after.fields = Append(parent.fields,
                                Decoded(parent.pend.field, "Len", FALSE,
                                        Buffer(parent.pend.sub_data)))
       ]_vars

\* C6: next_varint, on the base-128 encoding of a value v with
\* 0 <= v < 2^127, returns v and moves the cursor by the length of the
\* encoding.
C6_VarintRoundTrip ==
    (status = "called" /\ ref.status = "encoded") =>
        /\ ret = [kind |-> "Ok", value |-> ref.value]
        /\ Top.idx = ref.start + Len(EncodeVarint(ref.value))

\* 2^127 - 1 was decoded from its 19 bytes, the cursor not starting at 0 and
\* bytes following the encoding.
C6_Witness ==
    /\ status = "called"
    /\ ref.status = "encoded"
    /\ ref.value = 0..(I128Bits - 2)
    /\ ref.start = 2
    /\ input = <<8, 1>> \o Rep(255, 18) \o <<1, 128, 1>>
    /\ Top.idx = 21

\* C7: next_varint, on a buffer whose bytes from the cursor on all carry the
\* continuation bit, returns InvalidMemoryAccess, however many they are, and
\* ends in no other way.  The code, built with overflow checks, panics on
\* the twentieth such byte.
C7_ContinuationRunExhausts ==
    (status = "called" /\ ref.status = "continuation") =>
        ret = Err(InvalidMemoryAccess)

\* The discriminant of a wire type.
WireCode(wire_type) ==
    CASE wire_type = "VarInt" -> 0
      [] wire_type = "I64" -> 1
      [] wire_type = "Len" -> 2
      [] wire_type = "SGroup" -> 3
      [] wire_type = "EGroup" -> 4
      [] wire_type = "I32" -> 5

\* tag >> 3, of the whole tag value.
FieldNumberOf(tag) == {k - 3 : k \in tag \ (0..2)}

\* The fields the outermost loop has pushed or returned.
TopFields ==
    IF status = "ok" /\ round \in {1, 2} THEN ret.result.fields
    ELSE stack[1].fields

\* C8: a field recorded for the tag value t has the field number t >> 3 and
\* the wire type of code t & 7, for every t next_varint returns.  The code
\* cuts the tag to 32 bits before it shifts.
C8_FieldNumberIsTagShifted ==
    (round \in {1, 2}) =>
        \A i \in 1..Len(TopFields) :
            /\ i <= Len(tags)
            /\ TopFields[i].field = FieldNumberOf(tags[i])
            /\ WireCode(TopFields[i].wire_type) = CodeOf(tags[i])

\* C9: a successful decode returns one field for each tag its loop has read,
\* in the order of the tags, each with the field number of its tag; fields
\* of one number stay apart.  Through the tag cut to 32 bits (C8) a field
\* can carry another number than its tag's.
C9_OneFieldPerTagInOrder ==
    (round \in {1, 2} /\ status = "ok") =>
        /\ Len(ret.result.fields) = Len(tags)
        /\ \A i \in 1..Len(tags) :
               ret.result.fields[i].field = FieldNumberOf(tags[i])

----------------------------------------------------------------------------
(* What does hold of the code where C5, C7, C8 and C9 fail. *)

\* A length that fits a usize, and does not overflow it when added to the
\* cursor, fails as C5 says.
OversizedLengthFailsInRange ==
    [][(status = "running" /\ Depth = 1 /\ remaining(Top) > 0) =>
        LET t == next_varint(Top.data, Top.idx, oc)
            l == next_varint(Top.data, t.idx, oc)
        IN  (/\ t.out = "ok"
             /\ CodeOf(t.value) = 2
             /\ l.out = "ok"
             /\ l.value \subseteq (0..(UsizeBits - 1))
             /\ ~AddOverflows(l.idx, l.value)
             /\ Exceeds(l.value, Len(Top.data) - l.idx)) =>
                /\ status' = "err"
                /\ ret' = Err(InvalidMemoryAccess)
                /\ stack'[1].idx = l.idx
       ]_vars

\* Without overflow checks a run of continuation bytes ends in
\* InvalidMemoryAccess.
ContinuationRunExhaustsUnchecked ==
    (status = "called" /\ ref.status = "continuation" /\ ~oc) =>
        ret = Err(InvalidMemoryAccess)

\* One field for each tag, in order, with the number of the tag cut to 32
\* bits.
OneFieldPerCutTagInOrder ==
    (round \in {1, 2} /\ status = "ok") =>
        /\ Len(ret.result.fields) = Len(tags)
        /\ \A i \in 1..Len(tags) :
               /\ ret.result.fields[i].field
                      = FieldNumberOf(tags[i] \cap (0..(U32Bits - 1)))
               /\ WireCode(ret.result.fields[i].wire_type) = CodeOf(tags[i])

----------------------------------------------------------------------------
(* The claims about simplify, termination and the shape of results. *)

RECURSIVE SimplifiedAs(_, _)
\* s has, level by level, a field for each field of result, in the same
\* order, with the same number and is_object flag, one of the four labels,
\* a Nested value where the field's value is Nested and a String elsewhere.
SimplifiedAs(result, s) ==
    /\ Len(s.fields) = Len(result.fields)
    /\ \A i \in 1..Len(result.fields) :
           LET f == result.fields[i]
               g == s.fields[i]
           IN  /\ g.field = f.field
               /\ g.is_object = f.is_object
               /\ g.wire_type \in {"varint", "i64", "len", "i32"}
               /\ IF f.value.kind = "Nested"
                  THEN /\ g.value.kind = "Nested"
                       /\ SimplifiedAs(f.value.nested, g.value.nested)
                  ELSE g.value.kind = "String"

\* C11: simplify, on a result a successful decode returned, does not reach
\* the panic of unwrap_nested, and at every level gives as many fields in
\* the same order with the same numbers and is_object flags, a label among
\* "varint", "i64", "len", "i32", a Nested value exactly for the fields
\* whose value is Nested and a String for the others.
C11_SimplifyTotalOnDecoderOutput ==
    (simple # None) =>
        /\ status = "ok"
        /\ simple.kind = "Ok"
        /\ SimplifiedAs(ret.result, simple.result)

\* simplify has returned a message of two fields or more, one of them a
\* message itself with a field of its own, another one a String.
C11_Witness ==
    /\ simple.kind = "Ok"
    /\ Len(simple.result.fields) >= 2
    /\ \E i, j \in 1..Len(simple.result.fields) :
           /\ simple.result.fields[i].is_object
           /\ simple.result.fields[i].value.kind = "Nested"
           /\ Len(simple.result.fields[i].value.nested.fields) >= 1
           /\ simple.result.fields[j].value.kind = "String"

RECURSIVE Unread(_)
\* The bytes the decoders on the stack have not read yet.
Unread(s) ==
    IF s = <<>> THEN 0
    ELSE (Len(Head(s).data) - Head(s).idx) + Unread(Tail(s))

\* A number the steps of decode make smaller, and that is never negative.
Variant(s) == 2 * Unread(s) + Len(s)

RECURSIVE NestingDepth(_)
\* The nesting depth of a sequence of fields: how many messages deep its
\* deepest Nested value reaches.
NestingDepth(fields) ==
    LET ds == {1 + NestingDepth(fields[i].value.nested.fields) :
                  i \in {j \in 1..Len(fields) :
                            fields[j].value.kind = "Nested"}}
    IN  IF ds = {} THEN 0 ELSE CHOOSE m \in ds : \A n \in ds : n <= m

\* What C12 says of one step and of the state it leads to.
TerminationStep ==
    /\ (status = "running" /\ status' = "running" /\ round' = round) =>
           /\ Variant(stack') < Variant(stack)
           /\ (Len(stack') >= Len(stack)) =>
                  stack'[Depth].idx >= stack[Depth].idx + 1
    /\ \A k \in 2..Len(stack') :
           Len(stack'[k].data) < Len(stack'[k - 1].data)
    /\ \A k \in 1..Len(stack') :
           /\ stack'[k].idx <= Len(stack'[k].data)
           /\ NestingDepth(stack'[k].fields) <= Len(stack'[k].data)
    /\ (status' = "ok") =>
           NestingDepth(ret'.result.fields) <= Len(stack'[1].data)

\* C12: decode terminates.  Every pass of the field loop that does not fail
\* moves the cursor forward by one byte or more, every nested decoder gets
\* a payload strictly shorter than the buffer of its caller, every step of
\* a decode makes a non-negative number smaller, and the nesting depth of a
\* result, returned or under construction, is at most the length of the
\* buffer it was decoded from.
C12_DecodeTerminates == [][TerminationStep]_vars

\* A decode has returned a result whose messages nest two deep.
C12_Witness ==
    /\ status = "ok"
    /\ NestingDepth(ret.result.fields) >= 2

RECURSIVE TailsEmpty(_)
\* Every message nested in these fields, at any depth, has an empty
\* unprocessed tail.
TailsEmpty(fields) ==
    \A i \in 1..Len(fields) :
        fields[i].value.kind = "Nested" =>
            /\ fields[i].value.nested.unprocessed = <<>>
            /\ TailsEmpty(fields[i].value.nested.fields)

\* C13: a decode that returns Ok, the caller's or a nested one, returns
\* with its cursor at the length of its buffer and with an empty
\* unprocessed tail, and the read of the remaining bytes at the end of the
\* loop does not fail.
C13_OkLeavesNothingUnprocessed ==
    /\ (status = "running") =>
           LET o == Step(Top, oc)
           IN  /\ (remaining(Top) = 0) => (o.kind = "done")
               /\ (o.kind = "done") =>
                      /\ Top.idx = Len(Top.data)
                      /\ o.idx = Len(Top.data)
                      /\ o.unprocessed = <<>>
    /\ \A k \in 1..Depth : TailsEmpty(stack[k].fields)
    /\ (status = "ok") =>
           /\ stack[1].idx = Len(stack[1].data)
           /\ ret.result.unprocessed = <<>>
           /\ TailsEmpty(ret.result.fields)

\* The caller's decode has returned Ok on a buffer that is not empty, with
\* a message among the fields, itself with a field or more.
C13_Witness ==
    /\ status = "ok"
    /\ Len(stack[1].data) > 0
    /\ ret.result.unprocessed = <<>>
    /\ \E i \in 1..Len(ret.result.fields) :
           /\ ret.result.fields[i].value.kind = "Nested"
           /\ ret.result.fields[i].value.nested.fields # <<>>
           /\ ret.result.fields[i].value.nested.unprocessed = <<>>

\* The bytes a value of the wire type takes when it has a fixed size.
FixedSize(wire_type) == IF wire_type = "I32" THEN 4 ELSE 8

RECURSIVE WellShaped(_)
\* Every field, at any depth, has the value its wire type asks for.
WellShaped(fields) ==
    \A i \in 1..Len(fields) :
        LET f == fields[i]
        IN  /\ f.wire_type \in {"VarInt", "I64", "Len", "I32"}
            /\ (f.wire_type = "VarInt") => (f.value.kind = "BigInt")
            /\ (f.wire_type \in {"I32", "I64"}) =>
                   /\ f.value.kind = "Buffer"
                   /\ Len(f.value.buf) = FixedSize(f.wire_type)
            /\ (f.wire_type = "Len") => (f.value.kind \in {"Nested", "Buffer"})
            /\ f.is_object <=> (f.value.kind = "Nested")
            /\ f.is_object => (f.wire_type = "Len")
            /\ (f.value.kind = "Nested") => WellShaped(f.value.nested.fields)

RECURSIVE TagEnd(_, _)
\* The cursor after the varint that starts at cursor idx.
TagEnd(data, idx) ==
    IF data[idx + 1] < 128 THEN idx + 1 ELSE TagEnd(data, idx + 1)

\* What C14 says of one step and of the state it leads to.
ShapeStep ==
    /\ \A k \in 1..Len(stack') : WellShaped(stack'[k].fields)
    /\ (status' = "ok") => WellShaped(ret'.result.fields)
    /\ ( /\ status = "running" /\ status' = "running" /\ round' = round
         /\ Len(stack') = Len(stack)
         /\ Len(stack'[Depth].fields) = Len(Top.fields) + 1 ) =>
           LET f == stack'[Depth].fields[Len(Top.fields) + 1]
               e == TagEnd(Top.data, Top.idx)
           IN  (f.wire_type \in {"I32", "I64"}) =>
                   /\ f.value = Buffer(SubSeq(Top.data, e + 1,
                                              e + FixedSize(f.wire_type)))
                   /\ stack'[Depth].idx = e + FixedSize(f.wire_type)

\* C14: in every result of decode, returned or under construction, at every
\* level, a VarInt field carries a BigInt, an I32 field a Buffer of 4 bytes
\* and an I64 field a Buffer of 8 bytes, which are the bytes after the tag,
\* a Len field a Nested or a Buffer; is_object is true exactly when the
\* value is Nested, and only for Len; no field is an SGroup or an EGroup.
C14_ValueShapeFollowsWireType == [][ShapeStep]_vars

\* A decode has returned a message with a field of fixed size and a Len
\* field.
C14_Witness ==
    /\ status = "ok"
    /\ \E i, j \in 1..Len(ret.result.fields) :
           /\ ret.result.fields[i].wire_type \in {"I32", "I64"}
           /\ ret.result.fields[i].value.kind = "Buffer"
           /\ ret.result.fields[j].wire_type = "Len"

====
